---- MODULE Spec2Model ----
(***************************************************************************)
(* Model of dku_data_drift/model_tools.py:                                 *)
(*   mroc_auc_score       - binary / Hand-Till multi-class AUC             *)
(*   format_proba_density - kernel density curve on a 500 point grid       *)
(*   SurrogateModel       - random-forest wrapper (check, fit,             *)
(*                          get_features)                                  *)
(* Each of the three components has its own specification (SpecScore,      *)
(* SpecDensity, SpecSurrogate); the variables of the other two components  *)
(* stay at their idle values.                                              *)
(*                                                                         *)
(* Numbers.  Scores are exact rationals <<num, den>> in lowest terms, so   *)
(* equalities below are equalities of real numbers.  Predicted             *)
(* probabilities are integers in units of 1/nb_cols.  Density samples are  *)
(* integers in units of 1/10.  Grid abscissae are integers in units of     *)
(* 1/(NumPoints - 1).                                                      *)
(***************************************************************************)
EXTENDS Integers, Sequences, FiniteSets, TLC

\* ------------------------------------------------------------- bounds
MaxRows == 3
MaxCols == 3
HeavyWeight == 2

\* ------------------------------------------------------------- state
\* mroc_auc_score: its arguments, where the call stands, what it gave
VARIABLES y_true, y_predictions, sample_weight, score_pc, score_result

score_vars == <<y_true, y_predictions, sample_weight, score_pc, score_result>>

\* format_proba_density: its arguments, the estimator as fitted (kde), the
\* densities the estimator gave (Y_est), what the call returned
VARIABLES data, data_weight, min_support, max_support, kde, Y_est, density_pc,
          density_result

density_vars ==
    <<data, data_weight, min_support, max_support, kde, Y_est, density_pc, density_result>>

\* SurrogateModel.
\* One instance.  sm_pc: "new" (not constructed), "ready", "raised" (the
\* constructor raised).  arg_prediction_type, fit_ok, fit_calls, last_train
\* and last_target record the calls made, for the claims.
VARIABLES sm_pc, feature_names, target, prediction_type, clf, got,
          arg_prediction_type, fit_calls, fit_ok, last_train, last_target

sm_vars ==
    <<sm_pc, feature_names, target, prediction_type, clf, got, arg_prediction_type,
      fit_calls, fit_ok, last_train, last_target>>

vars == <<score_vars, density_vars, sm_vars>>

\* ----------------------------------------------------- python values
None == [none |-> TRUE, v |-> <<>>]
Some(x) == [none |-> FALSE, v |-> x]

\* --------------------------------------------------------- rationals
RECURSIVE GCD(_, _)
GCD(a, b) == IF b = 0 THEN a ELSE GCD(b, a % b)

Rat(n, d) == LET g == GCD(n, d) IN <<n \div g, d \div g>>

RatAdd(p, q) == Rat(p[1] * q[2] + q[1] * p[2], p[2] * q[2])

RatMul(p, q) == Rat(p[1] * q[1], p[2] * q[2])

\* s[1] + ... + s[k]
RECURSIVE SumTo(_, _)
SumTo(s, k) == IF k = 0 THEN 0 ELSE s[k] + SumTo(s, k - 1)

SumSeq(s) == SumTo(s, Len(s))

RECURSIVE SortedSeq(_)
SortedSeq(S) ==
    IF S = {} THEN <<>>
    ELSE LET m == CHOOSE x \in S : \A y \in S : x <= y
         IN <<m>> \o SortedSeq(S \ {m})

Range(s) == {s[r] : r \in DOMAIN s}

IndexOf(s, x) == CHOOSE r \in DOMAIN s : s[r] = x /\ \A q \in 1..(r - 1) : s[q] # x

\* ----------------------------------------------------------- results
Value(q, calls) == [kind |-> "value", val |-> q, calls |-> calls]
Raise(e, calls) == [kind |-> e, val |-> <<0, 1>>, calls |-> calls]
NoResult == [kind |-> "pending", val |-> <<0, 1>>, calls |-> 0]

\* ============================================================ scorer

\* sklearn.metrics.roc_auc_score on binary labels (TRUE = positive): the
\* weighted share of (positive, negative) pairs ranked correctly, ties
\* counted one half.  It raises ValueError when one class is missing.
roc_auc_score(y, s, w) ==
    LET n == Len(y)
        W(r) == IF w.none THEN 1 ELSE w.v[r]
        Pos == {r \in 1..n : y[r]}
        Neg == {r \in 1..n : ~y[r]}
        WSum(S) == SumSeq([r \in 1..n |-> IF r \in S THEN W(r) ELSE 0])
        \* twice the weight of the negatives ranked below row p, ties counted half
        Below(p) ==
            SumSeq([q \in 1..n |->
                       IF y[q] \/ s[p] < s[q] THEN 0
                       ELSE IF s[p] > s[q] THEN 2 * W(q) ELSE W(q)])
        Num2 == SumSeq([p \in 1..n |-> IF y[p] THEN W(p) * Below(p) ELSE 0])
    IN IF Pos = {} \/ Neg = {}
       THEN Raise("ValueError", 1)
       ELSE Value(Rat(Num2, 2 * WSum(Pos) * WSum(Neg)), 1)

\* np.unique(y_true): the distinct labels, ascending.
np_unique(y) == SortedSeq(Range(y))

\* seq[mask]: the entries at the rows of the mask, in row order.
Masked(seq, mask) ==
    LET rows == SelectSeq([r \in DOMAIN seq |-> r], LAMBDA r : mask[r])
    IN [x \in DOMAIN rows |-> seq[rows[x]]]

\* A numpy column index: i in -nb_cols .. nb_cols-1, negative ones counted
\* from the end; anything else is an IndexError.
ValidColumn(P, i) == -P.nb_cols <= i /\ i < P.nb_cols

ColumnIndex(P, i) == IF i < 0 THEN P.nb_cols + i ELSE i

\* y_predictions[:, i] for a valid i (column i is position i + 1).
Column(P, i) == [r \in 1..P.nb_rows |-> P.a[r][ColumnIndex(P, i) + 1]]

\* faulty variant: the labels taken to be 0 and 1 already
BinaryBranchNoRemap(y, P, w) ==
    roc_auc_score([r \in DOMAIN y |-> y[r] = 1], Column(P, 1), w)

\* the binary branch: labels mapped to their index in the sorted class list.
BinaryBranch(y, P, w) ==
    LET classes == np_unique(y)
        y01 == [r \in DOMAIN y |-> IndexOf(classes, y[r]) - 1]
    IN roc_auc_score([r \in DOMAIN y |-> y01[r] = 1], Column(P, 1), w)

\* A(i | j) of Hand and Till.
A(y, P, w, i, j) ==
    LET mask == [r \in DOMAIN y |-> y[r] \in {i, j}]
        y_true_i == [r \in DOMAIN y |-> y[r] = i]
        sample_weight_i == IF w.none THEN None ELSE Some(Masked(w.v, mask))
    IN IF ~ValidColumn(P, i)
       THEN Raise("IndexError", 0)
       ELSE roc_auc_score(Masked(y_true_i, mask), Masked(Column(P, i), mask), sample_weight_i)

\* faulty variant: each unordered pair once
PairFilterUpper(i, j) == i < j

\* if i != j
PairFilter(i, j) == i # j

\* the pairs of the generator, in its order: for i in classes for j in classes if i != j

Pairs(classes) ==
    LET k == Len(classes)
        all == [x \in 1..(k * k) |-> <<classes[((x - 1) \div k) + 1], classes[((x - 1) % k) + 1]>>]
    IN SelectSeq(all, LAMBDA p : PairFilter(p[1], p[2]))

\* sum(A(i, j) ...): the terms are added in order, the first exception ends it.
\* (the sum of the first x terms)
RECURSIVE SumA(_, _, _, _, _)
SumA(y, P, w, pairs, x) ==
    IF x = 0 THEN Value(<<0, 1>>, 0)
    ELSE LET acc == SumA(y, P, w, pairs, x - 1)
         IN IF acc.kind # "value" THEN acc
            ELSE LET t == A(y, P, w, pairs[x][1], pairs[x][2])
                 IN IF t.kind # "value"
                    THEN Raise(t.kind, acc.calls + t.calls)
                    ELSE Value(RatAdd(acc.val, t.val), acc.calls + t.calls)

MultiBranch(y, P, w) ==
    LET classes == np_unique(y)
        nb_classes == Len(classes)
        C == <<1, nb_classes * (nb_classes - 1)>>
        pairs == Pairs(classes)
        s == SumA(y, P, w, pairs, Len(pairs))
    IN IF s.kind = "value" THEN Value(RatMul(C, s.val), s.calls) ELSE s

\* faulty variant: off by one
TooManyClassesOrEqual(nb_classes, max_nb_classes) == nb_classes >= max_nb_classes

TooManyClasses(nb_classes, max_nb_classes) == nb_classes > max_nb_classes

TooFewClasses(nb_classes) == nb_classes < 2

mroc_auc_score(y, P, w) ==
    LET max_nb_classes == P.nb_cols
        nb_classes == Len(np_unique(y))
    IN IF TooManyClasses(nb_classes, max_nb_classes) THEN Raise("ValueError", 0)
       ELSE IF TooFewClasses(nb_classes) THEN Raise("ValueError", 0)
       ELSE IF nb_classes = 2 THEN BinaryBranch(y, P, w)
       ELSE MultiBranch(y, P, w)

\* ---- inputs of the scorer
\* class identifiers: the column indices and one identifier that is no column
Labels == 0..MaxCols

\* one probability row over c classes, in units of 1/c: all mass on one
\* class, or spread evenly
PredRows(c) ==
    {[x \in 1..c |-> IF x = j THEN c ELSE 0] : j \in 1..c} \cup {[x \in 1..c |-> 1]}

Matrices(n, c) == {[nb_rows |-> n, nb_cols |-> c, a |-> a] : a \in [1..n -> PredRows(c)]}

\* rows listed in label order
SortedLabelVectors(n) ==
    {y \in [1..n -> Labels] : \A r \in 1..(n - 1) : y[r] <= y[r + 1]}

\* no weights, or the first row weighing more than the others
Weights(n) ==
    IF n = 0 THEN {None}
    ELSE {None, Some([r \in 1..n |-> IF r = 1 THEN HeavyWeight ELSE 1])}

ScoreIdle ==
    /\ y_true = <<>>
    /\ y_predictions = [nb_rows |-> 0, nb_cols |-> 1, a |-> <<>>]
    /\ sample_weight = None
    /\ score_pc = "idle"
    /\ score_result = NoResult

ScoreInit ==
    /\ \E n \in 0..MaxRows, c \in 1..MaxCols :
          /\ y_true \in SortedLabelVectors(n)
          /\ y_predictions \in Matrices(n, c)
          /\ sample_weight \in Weights(n)
    /\ score_pc = "call"
    /\ score_result = NoResult

Score ==
    /\ score_pc = "call"
    /\ score_result' = mroc_auc_score(y_true, y_predictions, sample_weight)
    /\ score_pc' = "done"
    /\ UNCHANGED <<y_true, y_predictions, sample_weight>>
    /\ UNCHANGED <<density_vars, sm_vars>>

\* ------------------------------------------------- scorer: the claims
NbClasses == Cardinality(Range(y_true))

ScoreDone == score_pc = "done"

\* C1: the score raises ValueError, before any call of roc_auc_score, when
\* the labels hold more distinct values than the matrix has columns or fewer
\* than 2 distinct values; for 2 <= distinct labels <= columns the
\* validation raises nothing.
C1_Validation ==
    ScoreDone =>
        /\ (NbClasses > y_predictions.nb_cols \/ NbClasses < 2)
              => (score_result.kind = "ValueError" /\ score_result.calls = 0)
        /\ (2 <= NbClasses /\ NbClasses <= y_predictions.nb_cols)
              => score_result.kind # "ValueError"

C1_Witness ==
    /\ ScoreDone
    /\ NbClasses >= 2
    /\ NbClasses > y_predictions.nb_cols
    /\ score_result.kind = "ValueError"

\* C2: with exactly 2 distinct labels the score is roc_auc_score of the
\* second column (index 1) against "the row carries the larger label", with
\* the weights as supplied, whatever the two labels and for any number of
\* columns >= 2.
C2_Binary ==
    (ScoreDone /\ NbClasses = 2 /\ y_predictions.nb_cols >= 2) =>
        LET lo == CHOOSE x \in Range(y_true) : \A z \in Range(y_true) : x <= z
        IN score_result =
              roc_auc_score([r \in DOMAIN y_true |-> y_true[r] # lo],
                            [r \in DOMAIN y_true |-> y_predictions.a[r][2]],
                            sample_weight)

C2_Witness ==
    /\ ScoreDone
    /\ NbClasses = 2
    /\ Range(y_true) # {0, 1}
    /\ ~sample_weight.none
    /\ score_result.kind = "value"
    /\ score_result.val \notin {<<0, 1>>, <<1, 2>>, <<1, 1>>}

\* A(i | j) read off the definition: rows labelled i or j, "labelled i" as
\* the positive condition, the probability of class i as the score.
PairwiseAUC(i, j) ==
    LET rows == SelectSeq([r \in DOMAIN y_true |-> r], LAMBDA r : y_true[r] \in {i, j})
    IN roc_auc_score([x \in DOMAIN rows |-> y_true[rows[x]] = i],
                     [x \in DOMAIN rows |-> y_predictions.a[rows[x]][i + 1]],
                     IF sample_weight.none THEN None
                     ELSE Some([x \in DOMAIN rows |-> sample_weight.v[rows[x]]])).val

RECURSIVE SumPairwiseAUC(_)
SumPairwiseAUC(S) ==
    IF S = {} THEN <<0, 1>>
    ELSE LET p == CHOOSE z \in S : TRUE
         IN RatAdd(PairwiseAUC(p[1], p[2]), SumPairwiseAUC(S \ {p}))

HandTill ==
    LET cls == Range(y_true)
        k == Cardinality(cls)
    IN RatMul(<<1, k * (k - 1)>>,
              SumPairwiseAUC({p \in cls \X cls : p[1] # p[2]}))

\* C3: with k >= 3 distinct labels (arbitrary identifiers, k <= columns) the
\* score is returned and equals 1/(k(k-1)) times the sum of A(i | j) over
\* the ordered pairs of distinct observed classes.
C3_HandTill ==
    (ScoreDone /\ NbClasses >= 3 /\ NbClasses <= y_predictions.nb_cols) =>
        /\ score_result.kind = "value"
        /\ score_result.val = HandTill

\* the same statement on the inputs whose labels are all column indices
C3_HandTillOnColumnLabels ==
    (ScoreDone /\ NbClasses >= 3 /\ Range(y_true) \subseteq 0..(y_predictions.nb_cols - 1)) =>
        /\ score_result.kind = "value"
        /\ score_result.val = HandTill

Bijections(S) == {f \in [S -> S] : \A a, b \in S : f[a] = f[b] => a = b}

Relabel(y, f) == [r \in DOMAIN y |-> f[y[r]]]

\* column c of P moved to column f[c]
MoveColumns(P, f) ==
    LET from == [x \in 1..P.nb_cols |-> (CHOOSE c \in 0..(P.nb_cols - 1) : f[c] = x - 1) + 1]
    IN [P EXCEPT !.a = [r \in 1..P.nb_rows |-> [x \in 1..P.nb_cols |-> P.a[r][from[x]]]]]

\* C4 as stated: with k >= 3 observed classes, renaming the class labels by
\* any bijection of the observed classes (matrix and weights unchanged)
\* leaves the score unchanged.
C4_RelabelInvariant ==
    (ScoreDone /\ NbClasses >= 3 /\ score_result.kind = "value") =>
        \A f \in Bijections(Range(y_true)) :
            mroc_auc_score(Relabel(y_true, f), y_predictions, sample_weight) = score_result

\* C4 amended: with k >= 3 observed classes that are all column indices,
\* renaming the labels by a permutation of the column indices and moving the
\* columns of the matrix by the same permutation leaves the score unchanged.
C4_RelabelWithColumns ==
    (ScoreDone /\ NbClasses >= 3 /\ Range(y_true) \subseteq 0..(y_predictions.nb_cols - 1)) =>
        \A f \in Bijections(0..(y_predictions.nb_cols - 1)) :
            mroc_auc_score(Relabel(y_true, f), MoveColumns(y_predictions, f), sample_weight)
                = score_result

C4_Witness ==
    /\ ScoreDone
    /\ NbClasses >= 3
    /\ Range(y_true) \subseteq 0..(y_predictions.nb_cols - 1)
    /\ score_result.kind = "value"
    /\ \E f \in Bijections(0..(y_predictions.nb_cols - 1)) :
          /\ \E r \in DOMAIN y_true : f[y_true[r]] # y_true[r]
          /\ mroc_auc_score(Relabel(y_true, f), y_predictions, sample_weight) # score_result
          /\ mroc_auc_score(Relabel(y_true, f), MoveColumns(y_predictions, f), sample_weight)
                = score_result

\* =========================================================== density

\* np.linspace(min_support, max_support, 500)
NumPoints == 500

\* the fallback bandwidth 0.06, in units of 1/100
MinBandwidth == 6

\* density samples, in units of 1/10: 0.1 and 0.5
DataValues == {1, 5}

\* IEEE-754 double arithmetic of np.std on n copies of v/10 (n < 8, summed in
\* order): the pairs <<v, n>> for which sum/n does not round back to v/10,
\* so that the deviations, and the standard deviation, are not 0.  E.g.
\* (0.1+0.1+0.1)/3 = 0.10000000000000002 and np.std = 1.39e-17.
RoundedMeanDiffers ==
    {<<1, 3>>, <<1, 6>>, <<1, 7>>, <<2, 3>>, <<2, 6>>, <<2, 7>>, <<4, 3>>, <<4, 6>>,
     <<4, 7>>, <<7, 3>>, <<7, 6>>, <<7, 7>>, <<8, 3>>, <<8, 6>>, <<8, 7>>, <<9, 7>>}

\* np.std(data) > 0, as computed in double precision
np_std_positive(d) ==
    \/ Cardinality(Range(d)) > 1
    \/ Cardinality(Range(d)) = 1 /\ <<d[1], Len(d)>> \in RoundedMeanDiffers

\* h = 1.06 * np.std(data) * len(data) ** -0.2; if h <= 0: h = 0.06
\* (1.06 and len ** -0.2 are positive: h <= 0 exactly when np.std is 0)
Bandwidth(d) ==
    IF ~np_std_positive(d)
    THEN [rule |-> "fixed", h100 |-> MinBandwidth]
    ELSE [rule |-> "silverman", h100 |-> 0]

\* if len(np.unique(data)) == 1: sample_weight = None
FitWeight(d, w) == IF Cardinality(Range(d)) = 1 THEN None ELSE w

\* faulty variant: the grid starts one step after min_support
X_plot_shifted(lo, hi) ==
    [k \in 1..NumPoints |-> lo * (NumPoints - 1) + k * (hi - lo)]

\* np.linspace(lo, hi, 500): lo + k * (hi - lo) / 499 for k = 0..499, in
\* units of 1/499
X_plot(lo, hi) ==
    [k \in 1..NumPoints |-> lo * (NumPoints - 1) + (k - 1) * (hi - lo)]

\* one value of np.exp(kde.score_samples(X_plot))
Finite(x) == [kind |-> "finite", v |-> x]
NaN == [kind |-> "nan", v |-> 0]
Inf == [kind |-> "inf", v |-> 0]

\* faulty variant: the value passed on as it is
Patch_none(v) == v

\* v if not np.isnan(v) else 0
Patch(v) == IF v.kind = "nan" THEN Finite(0) ELSE v

\* faulty variant: no early return
IsEmpty_never(d) == FALSE

IsEmpty(d) == Len(d) = 0

NotFitted == [fitted |-> FALSE, bandwidth |-> [rule |-> "none", h100 |-> 0], sample_weight |-> None]

\* est: what np.exp(kde.score_samples(X_plot)) yields on the fitted estimator
format_proba_density(d, w, lo, hi, est) ==
    IF IsEmpty(d)
    THEN [ret |-> <<>>, kde |-> NotFitted, est |-> <<>>]
    ELSE LET h == Bandwidth(d)
             fit_weight == FitWeight(d, w)
             X == X_plot(lo, hi)
             Y_plot == [k \in DOMAIN est |-> Patch(est[k])]
         IN [ret |-> [k \in 1..(IF Len(X) < Len(Y_plot) THEN Len(X) ELSE Len(Y_plot))
                          |-> <<X[k], Y_plot[k]>>],
             kde |-> [fitted |-> TRUE, bandwidth |-> h, sample_weight |-> fit_weight],
             est |-> est]

\* ---- inputs of the density estimator
MaxData == 3

\* the default bounds of the signature, and 1 (the upper bound for probabilities)
Supports == {0, 1, 100}

\* the estimator's densities: 1 everywhere but at the two ends of the grid
EndValues == {NaN, Inf, Finite(0), Finite(3)}

EstOutputs ==
    {[k \in 1..NumPoints |-> IF k = 1 THEN a ELSE IF k = NumPoints THEN b ELSE Finite(1)]
        : a \in EndValues, b \in EndValues}

DensityIdle ==
    /\ data = <<>>
    /\ data_weight = None
    /\ min_support = 0
    /\ max_support = 100
    /\ kde = NotFitted
    /\ Y_est = <<>>
    /\ density_pc = "idle"
    /\ density_result = <<>>

DensityInit ==
    /\ \E n \in 0..MaxData :
          /\ data \in [1..n -> DataValues]
          /\ data_weight \in Weights(n)
    /\ min_support \in Supports
    /\ max_support \in Supports
    /\ kde = NotFitted
    /\ Y_est = <<>>
    /\ density_pc = "call"
    /\ density_result = <<>>

Density ==
    /\ density_pc = "call"
    /\ \E est \in EstOutputs :
          LET r == format_proba_density(data, data_weight, min_support, max_support, est)
          IN /\ density_result' = r.ret
             /\ kde' = r.kde
             /\ Y_est' = r.est
    /\ density_pc' = "done"
    /\ UNCHANGED <<data, data_weight, min_support, max_support>>
    /\ UNCHANGED <<score_vars, sm_vars>>

\* ------------------------------------------------ density: the claims
DensityDone == density_pc = "done"

X(k) == density_result[k][1]

Y(k) == density_result[k][2]

EvenGrid ==
    /\ Len(density_result) = NumPoints
    /\ X(1) = min_support * (NumPoints - 1)
    /\ X(NumPoints) = max_support * (NumPoints - 1)
    /\ \A k \in 1..(NumPoints - 2) : X(k + 1) - X(k) = X(k + 2) - X(k + 1)

Nondecreasing == \A k \in 1..(Len(density_result) - 1) : X(k) <= X(k + 1)

Nonincreasing == \A k \in 1..(Len(density_result) - 1) : X(k) >= X(k + 1)

\* C5 as stated: for non-empty data and any support bounds the result has
\* exactly 500 pairs, evenly spaced from min_support to max_support, with
\* nondecreasing abscissae.
C5_GridAnyBounds ==
    (DensityDone /\ data # <<>>) => (EvenGrid /\ Nondecreasing)

\* C5 amended: for non-empty data the result has exactly 500 pairs, evenly
\* spaced from min_support (first) to max_support (last); the abscissae are
\* nondecreasing when min_support <= max_support and nonincreasing otherwise.
C5_Grid ==
    (DensityDone /\ data # <<>>) =>
        /\ EvenGrid
        /\ min_support <= max_support => Nondecreasing
        /\ min_support >= max_support => Nonincreasing

C5_Witness ==
    /\ DensityDone
    /\ data # <<>>
    /\ min_support > max_support
    /\ Len(density_result) = NumPoints
    /\ X(1) > X(NumPoints)

\* C6: for non-empty data whose values are all identical the estimator is
\* fitted with bandwidth 0.06 and without weights, and 500 points come
\* back, none of them NaN; for data with more than one distinct value the
\* weights are passed as supplied.
C6_ZeroVariance ==
    (DensityDone /\ data # <<>>) =>
        /\ Cardinality(Range(data)) = 1 =>
              /\ kde.fitted
              /\ kde.bandwidth = [rule |-> "fixed", h100 |-> MinBandwidth]
              /\ kde.sample_weight = None
              /\ Len(density_result) = NumPoints
              /\ \A k \in DOMAIN density_result : Y(k).kind # "nan"
        /\ Cardinality(Range(data)) > 1 => kde.sample_weight = data_weight

\* C7 as stated: every returned density is finite; NaN and infinities are
\* replaced by 0 and finite values are returned unchanged.
C7_AllFinite ==
    DensityDone =>
        \A k \in DOMAIN density_result :
            /\ Y(k).kind = "finite"
            /\ Y_est[k].kind = "finite" => Y(k) = Y_est[k]
            /\ Y_est[k].kind # "finite" => Y(k) = Finite(0)

\* C7 amended: every NaN of the estimator is replaced by 0 and every other
\* value, +infinity included, is returned unchanged; no returned density is
\* NaN.
C7_NanPatched ==
    DensityDone =>
        /\ Len(density_result) = Len(Y_est)
        /\ \A k \in DOMAIN density_result :
              /\ Y(k).kind # "nan"
              /\ Y_est[k].kind = "nan" => Y(k) = Finite(0)
              /\ Y_est[k].kind # "nan" => Y(k) = Y_est[k]

C7_Witness ==
    /\ DensityDone
    /\ Len(density_result) = NumPoints
    /\ Y_est[1].kind = "nan"
    /\ Y(1) = Finite(0)
    /\ Y_est[NumPoints].kind = "inf"
    /\ Y(NumPoints).kind = "inf"

\* C10: for empty data the result is the empty sequence, whatever the
\* support bounds and weights, and the estimator is neither fitted nor
\* evaluated.
C10_Empty ==
    (DensityDone /\ data = <<>>) =>
        /\ density_result = <<>>
        /\ ~kde.fitted
        /\ Y_est = <<>>

C10_Witness ==
    /\ DensityDone
    /\ data = <<>>
    /\ min_support > max_support
    /\ density_result = <<>>

\* ==================================================== SurrogateModel

\* ModelDriftConstants (model_drift_constants.py)
CLASSIFICATION_TYPE == "CLASSIFICATION"

REGRRSSION_TYPE == "REGRESSION"

\* RandomForestClassifier(random_state=1407)
RandomState == 1407

\* an attribute that was never assigned
Unset == [none |-> TRUE, v |-> <<"unset">>]

NoEstimator == [kind |-> "none", random_state |-> 0, fitted |-> FALSE]

\* faulty variant: nothing is rejected
check_nothing(pt) == FALSE

\* check raises ValueError
check_raises(pt) == pt \notin {CLASSIFICATION_TYPE, REGRRSSION_TYPE}

NewEstimator(pt) ==
    IF pt = CLASSIFICATION_TYPE
    THEN [kind |-> "RandomForestClassifier", random_state |-> RandomState, fitted |-> FALSE]
    ELSE [kind |-> "RandomForestRegressor", random_state |-> RandomState, fitted |-> FALSE]

\* SurrogateModel(prediction_type)
Construct(pt) ==
    /\ sm_pc = "new"
    /\ arg_prediction_type' = pt
    /\ IF check_raises(pt)
       THEN /\ sm_pc' = "raised"
            /\ UNCHANGED <<feature_names, target, prediction_type, clf>>
       ELSE /\ sm_pc' = "ready"
            /\ feature_names' = None
            /\ target' = None
            /\ prediction_type' = pt
            /\ clf' = NewEstimator(pt)
    /\ UNCHANGED <<got, fit_calls, fit_ok, last_train, last_target>>
    /\ UNCHANGED <<score_vars, density_vars>>

\* get_features()
GetFeatures ==
    /\ sm_pc = "ready"
    /\ got' = [called |-> TRUE, ret |-> feature_names]
    /\ UNCHANGED <<sm_pc, feature_names, target, prediction_type, clf, arg_prediction_type,
                   fit_calls, fit_ok, last_train, last_target>>
    /\ UNCHANGED <<score_vars, density_vars>>

\* train.drop(target, axis=1).columns
Drop(cols, t) == SelectSeq(cols, LAMBDA c : c # t)

\* Preprocessor(df, target).get_processed_train_test(): raises, or yields a
\* train table with some columns (the encoding decides which)
Preprocessed(train_cols, raises) ==
    IF raises THEN [ok |-> FALSE, train |-> <<>>] ELSE [ok |-> TRUE, train |-> train_cols]

\* self.clf.fit(train_X, train_Y) raises on a table without feature columns,
\* and may raise on any other
EnsembleFitRaises(train_X, raises) == Len(train_X) = 0 \/ raises

\* faulty variant: the names are recorded before the ensemble is fitted
fit_early_names(fn, c, pre, t, clf_raises) ==
    IF ~pre.ok \/ t \notin Range(pre.train)
    THEN [ok |-> FALSE, feature_names |-> fn, clf |-> c]
    ELSE LET train_X == Drop(pre.train, t)
         IN IF EnsembleFitRaises(train_X, clf_raises)
            THEN [ok |-> FALSE, feature_names |-> Some(train_X), clf |-> c]
            ELSE [ok |-> TRUE, feature_names |-> Some(train_X),
                  clf |-> [c EXCEPT !.fitted = TRUE]]

\* the body of fit: the instance's feature_names and clf after the call, and
\* whether the call returned (ok) or raised
fit(fn, c, pre, t, clf_raises) ==
    IF ~pre.ok \/ t \notin Range(pre.train)
    THEN [ok |-> FALSE, feature_names |-> fn, clf |-> c]
    ELSE LET train_X == Drop(pre.train, t)
         IN IF EnsembleFitRaises(train_X, clf_raises)
            THEN [ok |-> FALSE, feature_names |-> fn, clf |-> c]
            ELSE [ok |-> TRUE, feature_names |-> Some(train_X),
                  clf |-> [c EXCEPT !.fitted = TRUE]]

\* ---- inputs of the surrogate model
MaxFits == 2

MaxTableCols == 3

PredictionTypes == {CLASSIFICATION_TYPE, REGRRSSION_TYPE, "CLUSTERING", ""}

Names == {"a", "b", "y"}

ColumnLists ==
    UNION {{cs \in [1..n -> Names] : \A p, q \in 1..n : cs[p] = cs[q] => p = q}
              : n \in 0..MaxTableCols}

\* fit(df, target)
Fit ==
    /\ sm_pc = "ready"
    /\ fit_calls < MaxFits
    /\ fit_calls' = fit_calls + 1
    /\ \E train_cols \in ColumnLists, t \in Names, pre_raises \in BOOLEAN, clf_raises \in BOOLEAN :
          LET r == fit(feature_names, clf, Preprocessed(train_cols, pre_raises), t, clf_raises)
          IN /\ feature_names' = r.feature_names
             /\ clf' = r.clf
             /\ IF r.ok
                THEN /\ fit_ok' = fit_ok + 1
                     /\ last_train' = train_cols
                     /\ last_target' = t
                ELSE UNCHANGED <<fit_ok, last_train, last_target>>
    /\ UNCHANGED <<sm_pc, target, prediction_type, got, arg_prediction_type>>
    /\ UNCHANGED <<score_vars, density_vars>>

SmIdle ==
    /\ sm_pc = "idle"
    /\ feature_names = Unset
    /\ target = Unset
    /\ prediction_type = "unset"
    /\ clf = NoEstimator
    /\ got = [called |-> FALSE, ret |-> None]
    /\ arg_prediction_type = "unset"
    /\ fit_calls = 0
    /\ fit_ok = 0
    /\ last_train = <<>>
    /\ last_target = ""

SmInit ==
    /\ sm_pc = "new"
    /\ feature_names = Unset
    /\ target = Unset
    /\ prediction_type = "unset"
    /\ clf = NoEstimator
    /\ got = [called |-> FALSE, ret |-> None]
    /\ arg_prediction_type = "unset"
    /\ fit_calls = 0
    /\ fit_ok = 0
    /\ last_train = <<>>
    /\ last_target = ""

\* ----------------------------------------- SurrogateModel: the claims
C8_State ==
    sm_pc = "ready" =>
        /\ fit_ok = 0 => feature_names = None
        /\ fit_ok > 0 =>
              /\ ~feature_names.none
              /\ Len(feature_names.v) >= 1
              /\ feature_names.v = Drop(last_train, last_target)
              /\ last_target \notin Range(feature_names.v)
        /\ (got.called /\ fit_ok = 0) => got.ret = None

C8_Step ==
    /\ (got' # got) => got'.ret = feature_names
    /\ (sm_pc = "ready" /\ ~feature_names.none) => ~feature_names'.none
    /\ (got.called /\ ~got.ret.none) => (got'.called /\ ~got'.ret.none)
    /\ sm_pc = "ready" => prediction_type' = prediction_type

\* C8: get_features returns None as long as no fit has succeeded (failed
\* fits included); after a successful fit it returns the non-empty list of
\* the fitted table's columns without the target; once it has returned a
\* list it never returns None again; prediction_type never changes after
\* construction.
C8_Lifecycle == [](C8_State) /\ [][C8_Step]_vars

C8_Witness ==
    /\ sm_pc = "ready"
    /\ fit_calls = 2
    /\ fit_ok = 1
    /\ last_train = <<"b", "y", "a">>
    /\ last_target = "y"
    /\ got.called
    /\ got.ret = Some(<<"b", "a">>)

\* C9: a prediction_type other than the two tags raises ValueError with no
\* estimator allocated and no field set; CLASSIFICATION allocates the
\* classifier and REGRESSION the regressor, each with random_state 1407.
C9_Construct ==
    /\ sm_pc = "raised" =>
          /\ arg_prediction_type \notin {CLASSIFICATION_TYPE, REGRRSSION_TYPE}
          /\ clf = NoEstimator
          /\ feature_names = Unset
          /\ target = Unset
          /\ prediction_type = "unset"
    /\ sm_pc = "ready" =>
          /\ prediction_type = arg_prediction_type
          /\ prediction_type \in {CLASSIFICATION_TYPE, REGRRSSION_TYPE}
          /\ prediction_type = CLASSIFICATION_TYPE => clf.kind = "RandomForestClassifier"
          /\ prediction_type = REGRRSSION_TYPE => clf.kind = "RandomForestRegressor"
          /\ clf.random_state = RandomState

C9_Witness ==
    /\ sm_pc = "raised"
    /\ arg_prediction_type = "CLUSTERING"
    /\ clf = NoEstimator

InitScore == ScoreInit /\ DensityIdle /\ SmIdle

SpecScore == InitScore /\ [][Score]_vars

InitDensity == DensityInit /\ ScoreIdle /\ SmIdle

SpecDensity == InitDensity /\ [][Density]_vars

InitSurrogate == SmInit /\ ScoreIdle /\ DensityIdle

SmNext ==
    \/ \E pt \in PredictionTypes : Construct(pt)
    \/ Fit
    \/ GetFeatures

SpecSurrogate == InitSurrogate /\ [][SmNext]_vars

====
